---------------------------- MODULE Spec2Model ----------------------------
(* A model of the two-phase crawl of src/main.go: main (the dispatcher and   *)
(* producer of both phases), the processURLs workers of phase 1, the         *)
(* processProduct workers of phase 2, the scroll loop and the extraction     *)
(* pipeline of scrapeProduct.                                                *)
(*                                                                           *)
(* Strings are sequences of one-character strings, so that formatting and    *)
(* parsing (Sprintf, Atoi, TrimSpace, the two regular expressions) are       *)
(* computed character by character.                                          *)
EXTENDS Integers, Sequences, FiniteSets, TLC

(***************************************************************************)
(* Bounds of the model                                                     *)
(***************************************************************************)
\* number of worker goroutines per phase (numWorkers in the source is 10)
numWorkers == 2
\* largest value the page-total indicator shows
MaxPageTotal == 3
\* most product links a listing page holds
MaxLinks == 1
\* most category anchors the navigation region holds
MaxCategoryElems == 2
\* most ProductURL rows in the collection at startup
MaxStored == 3
\* result cap of the bulk read (SetLimit(300) in the source)
FindLimit == 2
\* most iterations of the scroll loop followed in ScrollSpec
MaxScrollIter == 3

Workers == 1..numWorkers
TaskIds == 1..(MaxPageTotal + FindLimit)

(***************************************************************************)
(* Strings                                                                 *)
(***************************************************************************)
baseURL == <<"h", "t", "t", "p", "s", ":", "/", "/", "s", "h", "o", "p", ".", "a", "d", "i", "d", "a", "s", ".", "j", "p">>
PagePrefix == <<"p", "a", "g", "e", "=">>
CategoryPrefix == <<"c", "a", "t", "e", "g", "o", "r", "y", "=">>
PageSuffix == <<"&", "p", "a", "g", "e", "=">>
HrefShoes == <<"/", "?", "c", "a", "t", "e", "g", "o", "r", "y", "=", "a">>
HrefNoCategory == <<"/", "m", "e", "n">>
HrefProduct == <<"/", "p", "/">>

Digits == <<"0", "1", "2", "3", "4", "5", "6", "7", "8", "9">>
DigitSet == {Digits[i] : i \in 1..10}
DigitVal(c) == (CHOOSE i \in 1..10 : Digits[i] = c) - 1
WhiteSpace == {" ", "\t", "\n", "\r"}

\* fmt's %d of a non-negative integer
RECURSIVE Itoa(_)
Itoa(n) ==
    IF n < 10 THEN <<Digits[n + 1]>>
    ELSE Itoa(n \div 10) \o <<Digits[(n % 10) + 1]>>

RECURSIVE DigitsToInt(_)
DigitsToInt(s) ==
    IF s = <<>> THEN 0
    ELSE 10 * DigitsToInt(SubSeq(s, 1, Len(s) - 1)) + DigitVal(s[Len(s)])

\* strconv.Atoi: an optional sign, then one or more decimal digits and nothing
\* else; [ok |-> FALSE] stands for the returned error
Atoi(s) ==
    LET signed == s # <<>> /\ s[1] \in {"+", "-"}
        body == IF signed THEN Tail(s) ELSE s
    IN  IF body = <<>> \/ \E i \in 1..Len(body) : body[i] \notin DigitSet
        THEN [ok |-> FALSE, val |-> 0]
        ELSE [ok |-> TRUE,
              val |-> IF signed /\ s[1] = "-" THEN 0 - DigitsToInt(body)
                      ELSE DigitsToInt(body)]

\* strings.TrimSpace
RECURSIVE TrimSpace(_)
TrimSpace(s) ==
    IF s = <<>> THEN s
    ELSE IF s[1] \in WhiteSpace THEN TrimSpace(Tail(s))
    ELSE IF s[Len(s)] \in WhiteSpace THEN TrimSpace(SubSeq(s, 1, Len(s) - 1))
    ELSE s

\* whether pat occurs in s at position p
HasAt(s, p, pat) ==
    /\ p + Len(pat) - 1 <= Len(s)
    /\ \A k \in 1..Len(pat) : s[p + k - 1] = pat[k]

\* the longest run of characters of s from position p on that are in (or,
\* with inside = FALSE, not in) the set cs
RECURSIVE RunFrom(_, _, _, _)
RunFrom(s, p, cs, inside) ==
    IF p > Len(s) \/ ((s[p] \in cs) # inside) THEN <<>>
    ELSE <<s[p]>> \o RunFrom(s, p + 1, cs, inside)

\* regexp `page=(\d+)`, leftmost match, then strconv.Atoi of the digits
extractPageNumber(url) ==
    LET starts == {p \in 1..Len(url) :
                     /\ HasAt(url, p, PagePrefix)
                     /\ RunFrom(url, p + Len(PagePrefix), DigitSet, TRUE) # <<>>}
    IN  IF starts = {} THEN -1
        ELSE LET p == CHOOSE q \in starts : \A r \in starts : q <= r
                 n == Atoi(RunFrom(url, p + Len(PagePrefix), DigitSet, TRUE))
             IN  IF n.ok THEN n.val ELSE -1

\* regexp `category=([^&]+)`, leftmost match
extractCategory(url) ==
    LET starts == {p \in 1..Len(url) :
                     /\ HasAt(url, p, CategoryPrefix)
                     /\ RunFrom(url, p + Len(CategoryPrefix), {"&"}, FALSE) # <<>>}
    IN  IF starts = {} THEN <<>>
        ELSE LET p == CHOOSE q \in starts : \A r \in starts : q <= r
             IN  RunFrom(url, p + Len(CategoryPrefix), {"&"}, FALSE)

\* fmt.Sprintf("%s&page=%d", category, i)
PageURL(category, i) == category \o PageSuffix \o Itoa(i)


(***************************************************************************)
(* Page count of the selected category                                     *)
(***************************************************************************)
\* what the .pageTotal element can present: no element (FindElement's error),
\* an element whose Text() fails, or its text
PageTotalTexts ==
    {Itoa(n) : n \in 0..MaxPageTotal}
        \cup {<<" ">> \o Itoa(MaxPageTotal) \o <<" ", "\n">>,
              <<>>, <<"2", "x">>, <<"-", "1">>}
PageTotalIndicators ==
    {[kind |-> "absent", text |-> <<>>], [kind |-> "textError", text |-> <<>>]}
        \cup {[kind |-> "text", text |-> t] : t \in PageTotalTexts}

\* (mutation) the indicator's text parsed as it is, without TrimSpace
getPageCountUntrimmed(ind) ==
    IF ind.kind # "text" THEN 1
    ELSE LET pageTotal == Atoi(ind.text)
         IN  IF pageTotal.ok THEN pageTotal.val ELSE 1

getPageCount(ind) ==
    IF ind.kind # "text" THEN 1
    ELSE LET pageTotal == Atoi(TrimSpace(ind.text))
         IN  IF pageTotal.ok THEN pageTotal.val ELSE 1

(***************************************************************************)
(* Scroll convergence                                                      *)
(***************************************************************************)
\* one iteration's script results: err names the ExecuteScript call that
\* failed ("none": all four succeeded), the rest are the three values read
ScrollErrors == {"scrollBy", "scrollHeight", "clientHeight", "scrollTop"}
Readings ==
    [err : {"none"}, scrollTop : 0..1, clientHeight : {1}, scrollHeight : 1..3]
        \cup [err : ScrollErrors, scrollTop : {0}, clientHeight : {0}, scrollHeight : {0}]

\* (mutation) the comparison made strict
ScrollIterationStrict(r) ==
    IF r.err # "none" THEN "fatal"
    ELSE IF r.scrollTop + r.clientHeight > r.scrollHeight THEN "break"
    ELSE "again"

\* one pass through the body of scrollToBottom's loop
ScrollIteration(r) ==
    IF r.err # "none" THEN "fatal"
    ELSE IF r.scrollTop + r.clientHeight >= r.scrollHeight THEN "break"
    ELSE "again"

(***************************************************************************)
(* Field extraction pipeline of scrapeProduct                              *)
(***************************************************************************)
\* the extraction steps in source order; kind "one" is a FindElement lookup
\* (no match is an error), "many" a FindElements lookup (no match is an empty
\* list); inner tells whether a lookup inside each found element follows
Steps == <<
    [name |-> "breadcrumbs",        field |-> "Breadcrumbs",         kind |-> "many", inner |-> FALSE],
    [name |-> "category",           field |-> "Category",            kind |-> "one",  inner |-> FALSE],
    [name |-> "title",              field |-> "Title",               kind |-> "one",  inner |-> FALSE],
    [name |-> "price",              field |-> "Price",               kind |-> "one",  inner |-> FALSE],
    [name |-> "colors",             field |-> "AvailableColors",     kind |-> "many", inner |-> TRUE],
    [name |-> "sizes",              field |-> "AvailableSizes",      kind |-> "many", inner |-> FALSE],
    [name |-> "images",             field |-> "Media",               kind |-> "many", inner |-> FALSE],
    [name |-> "videos",             field |-> "Media",               kind |-> "many", inner |-> FALSE],
    [name |-> "coordinated",        field |-> "CoordinatedProducts", kind |-> "many", inner |-> TRUE],
    [name |-> "descriptionHeading", field |-> "DescriptionHeading",  kind |-> "one",  inner |-> FALSE],
    [name |-> "descriptionTitle",   field |-> "DescriptionTitle",    kind |-> "one",  inner |-> FALSE],
    [name |-> "description",        field |-> "Description",         kind |-> "one",  inner |-> FALSE],
    [name |-> "specifications",     field |-> "Specifications",      kind |-> "many", inner |-> FALSE],
    [name |-> "specialDescription", field |-> "SpecialDescription",  kind |-> "many", inner |-> TRUE],
    [name |-> "sizeHeaders",        field |-> "SizeChart",           kind |-> "many", inner |-> FALSE],
    [name |-> "sizeKeys",           field |-> "SizeChart",           kind |-> "many", inner |-> FALSE],
    [name |-> "sizeRows",           field |-> "SizeChart",           kind |-> "many", inner |-> FALSE],
    [name |-> "sizeRemarks",        field |-> "SizeRemarks",         kind |-> "many", inner |-> FALSE],
    [name |-> "summaryRating",      field |-> "ReviewSummary",       kind |-> "one",  inner |-> FALSE],
    [name |-> "summaryCount",       field |-> "ReviewSummary",       kind |-> "one",  inner |-> FALSE],
    [name |-> "summaryRecommended", field |-> "ReviewSummary",       kind |-> "one",  inner |-> FALSE],
    [name |-> "summaryRatings",     field |-> "ReviewSummary",       kind |-> "many", inner |-> FALSE],
    [name |-> "reviews",            field |-> "Reviews",             kind |-> "many", inner |-> TRUE],
    [name |-> "tags",               field |-> "Tags",                kind |-> "many", inner |-> FALSE] >>

StepNames == {Steps[i].name : i \in 1..Len(Steps)}
Fields == {Steps[i].field : i \in 1..Len(Steps)}
StepIndex(n) == CHOOSE i \in 1..Len(Steps) : Steps[i].name = n

\* what a step can meet on the page:
\*   ok        the elements are found and read
\*   nomatch   FindElements returns an empty list and no error
\*   finderr   the lookup returns an error (for FindElement: also no match)
\*   readerr   Text() or GetAttribute() of a found element returns an error
\*   innererr  the lookup inside a found element returns an error
\*   overflow  (sizeRows) a table row holds more cells than there are size keys
\*   malformed (reviews) a rating title that is not empty and holds no "/"
StepOutcomes(st) ==
    {"ok", "finderr", "readerr"}
        \cup (IF st.kind = "many" THEN {"nomatch"} ELSE {})
        \cup (IF st.inner THEN {"innererr"} ELSE {})
        \cup (IF st.name = "sizeRows" THEN {"overflow"} ELSE {})
        \cup (IF st.name = "reviews" THEN {"malformed"} ELSE {})

\* the steps whose lookup error is answered with log.Fatalf
FatalOnFind == {"colors", "sizes", "images", "videos", "sizeHeaders", "sizeKeys", "sizeRows"}
\* the steps whose read error is answered with log.Fatalf
FatalOnRead == {"images", "videos", "sizeHeaders", "sizeKeys", "sizeRows"}

\* (mutation) an empty list answered as a lookup error is
StepResultNoMatchIsError(page, st) ==
    LET o == page[st.name]
    IN  IF st.name = "sizeRows" /\ page["sizeHeaders"] # "ok"
        THEN "zero"
        ELSE CASE o = "ok" -> "set"
               [] o \in {"nomatch", "finderr"} ->
                    IF st.name \in FatalOnFind THEN "fatal" ELSE "zero"
               [] o = "readerr" -> IF st.name \in FatalOnRead THEN "fatal" ELSE "zero"
               [] o = "innererr" -> IF st.name = "coordinated" THEN "panic" ELSE "zero"
               [] o = "overflow" -> "panic"
               [] o = "malformed" -> "panic"

\* what a step does on a page (a function from step names to outcomes):
\* "set" stores into its field, "zero" leaves the field as it is, "fatal" is
\* log.Fatalf and "panic" a run-time panic (both end the process)
StepResult(page, st) ==
    LET o == page[st.name]
    IN  IF st.name = "sizeRows" /\ page["sizeHeaders"] # "ok"
        THEN "zero"    \* no header: the loop over headers looks no row up
        ELSE CASE o = "ok" -> "set"
               [] o = "nomatch" -> "zero"
               [] o = "finderr" -> IF st.name \in FatalOnFind THEN "fatal" ELSE "zero"
               [] o = "readerr" -> IF st.name \in FatalOnRead THEN "fatal" ELSE "zero"
               [] o = "innererr" ->
                    \* a card without its image leaves productNameElement nil,
                    \* and GetAttribute("src") is then called on it
                    IF st.name = "coordinated" THEN "panic" ELSE "zero"
               [] o = "overflow" -> "panic"     \* sizeKeys[j], j >= len(sizeKeys)
               [] o = "malformed" -> "panic"    \* ratingText[1] of a 1-element split

\* the Product under construction: each field "zero", "set", or (SizeChart)
\* "empty" for the non-nil map without keys
NewProduct == [f \in Fields |-> "zero"]

\* the field a step leaves behind
StepStore(product, page, st) ==
    LET r == StepResult(page, st)
    IN  IF st.name = "sizeRows"
        THEN \* product.SizeChart = sizeChart: the map made before the loop
             [product EXCEPT !["SizeChart"] =
                 IF page["sizeHeaders"] = "ok" THEN "set" ELSE "empty"]
        ELSE IF r = "set" /\ st.field # "SizeChart"
        THEN [product EXCEPT ![st.field] = "set"]
        ELSE product

\* scrapeProduct's pipeline from step i on: the Product returned, or the
\* failure that ended the process: the field being extracted and what the
\* step met
RECURSIVE ScrapeFrom(_, _, _)
ScrapeFrom(page, i, product) ==
    IF i > Len(Steps)
    THEN [status |-> "returned", product |-> product, at |-> "", on |-> ""]
    ELSE LET r == StepResult(page, Steps[i])
         IN  IF r \in {"fatal", "panic"}
             THEN [status |-> r, product |-> product,
                   at |-> Steps[i].field, on |-> page[Steps[i].name]]
             ELSE ScrapeFrom(page, i + 1, StepStore(product, page, Steps[i]))

ScrapeProduct(page) == ScrapeFrom(page, 1, NewProduct)

\* the pages: everything present, nothing matching, and each of the two
\* with one step meeting something else
AllOkPage == [n \in StepNames |-> "ok"]
EmptyPage == [n \in StepNames |->
                IF Steps[StepIndex(n)].kind = "many" THEN "nomatch" ELSE "finderr"]
Pages ==
    {AllOkPage, EmptyPage}
        \cup UNION {{[b EXCEPT ![Steps[i].name] = o] : o \in StepOutcomes(Steps[i])} :
                      b \in {AllOkPage, EmptyPage}, i \in 1..Len(Steps)}

\* how scrapeProduct can end, over all pages
ScrapeEnds == {[status |-> ScrapeProduct(p).status, at |-> ScrapeProduct(p).at,
                on |-> ScrapeProduct(p).on] : p \in Pages}


(***************************************************************************)
(* What the site and the store present                                     *)
(***************************************************************************)
SeqsUpTo(S, n) == UNION {[1..k -> S] : k \in 0..n}

\* an anchor: GetAttribute("href") fails, or returns href (possibly empty)
Anchor(href) == [err |-> FALSE, href |-> href]
BrokenAnchor == [err |-> TRUE, href |-> <<>>]

CategoryAnchors == {BrokenAnchor, Anchor(<<>>), Anchor(HrefShoes), Anchor(HrefNoCategory)}
ProductAnchors == {BrokenAnchor, Anchor(<<>>), Anchor(HrefProduct \o <<"1">>)}

\* the category URLs main collects from the navigation anchors
RECURSIVE CategoriesOf(_)
CategoriesOf(elems) ==
    IF elems = <<>> THEN <<>>
    ELSE IF ~Head(elems).err /\ Head(elems).href # <<>>
         THEN <<baseURL \o Head(elems).href>> \o CategoriesOf(Tail(elems))
         ELSE CategoriesOf(Tail(elems))

\* the product_urls collection at startup
StoredRows(n) ==
    [k \in 1..n |-> [category |-> <<"a">>, pageNo |-> 1,
                     url |-> baseURL \o HrefProduct \o Itoa(k)]]
InitialStores == {StoredRows(n) : n \in 0..MaxStored}

\* Find with SetLimit: the first rows of the collection, at most limit of them
FindRows(rows, limit) ==
    SubSeq(rows, 1, IF Len(rows) < limit THEN Len(rows) ELSE limit)

(***************************************************************************)
(* State                                                                   *)
(***************************************************************************)
VARIABLES
    proc,           \* "running", or "exited" once log.Fatalf or a panic ended the process
    exitCause,      \* [kind, at]: what ended the process
    exitTask,       \* [phase, task]: the task in progress in the goroutine that ended it
    mpc,            \* where main is
    stored,         \* the product_urls collection, in insertion order
    products,       \* the products collection, in insertion order
    categories,     \* main's categories
    pageCount,      \* main's pageCount
    indicator,      \* what the .pageTotal element presented to getPageCount
    results,        \* main's results
    sentLog,        \* per phase, the URLs main has sent on the channel so far
    closed,         \* per phase, whether the channel is closed
    wpc,            \* where each worker goroutine is
    wtask,          \* the index (in sentLog) of the task a worker holds, 0 for none
    wurl,           \* a worker's url
    wlinks,         \* phase 1: the product anchors a worker still has to go through
    loaded,         \* phase 2: the URL of the page a worker's session shows (<<>>: none yet)
    sessionFailed,  \* the <<phase, worker>> whose selenium.NewRemote failed
    recvCount,      \* per phase and task, how many times it was received
    failedRecv,     \* the <<phase, task>> received by a worker whose session had failed
    handled,        \* per phase and task, how many times a worker finished with it
    loadFailed,     \* phase 2: the tasks whose wd.Get failed
    extracted,      \* phase 2: the tasks for which scrapeProduct returned
    scObserved,     \* scroll loop alone: the readings it was fed
    scIterations,   \* scroll loop alone: the passes through the loop body
    scState,        \* scroll loop alone: "looping", "returned" or "fatal"
    exPage,         \* pipeline alone: the page
    exNext,         \* pipeline alone: index of the step to run next
    exProduct,      \* pipeline alone: the Product under construction
    exStatus,       \* pipeline alone: "running", "returned", "fatal" or "panic"
    exRan,          \* pipeline alone: the names of the steps that ran and came back
    exWritten,      \* pipeline alone: the products collection after the task
    fnName,         \* one function alone: which one
    fnIn,           \* one function alone: what it is given
    fnOut,          \* one function alone: what it gave back
    fnDone          \* one function alone: whether it has come back

poolVars == <<proc, exitCause, exitTask, mpc, stored, products, categories, pageCount, indicator,
              results, sentLog, closed, wpc, wtask, wurl, wlinks, loaded, sessionFailed,
              recvCount, failedRecv, handled, loadFailed, extracted>>
scrollVars == <<scObserved, scIterations, scState>>
extractVars == <<exPage, exNext, exProduct, exStatus, exRan, exWritten>>
fnVars == <<fnName, fnIn, fnOut, fnDone>>
vars == <<poolVars, scrollVars, extractVars, fnVars>>

NoCause == [kind |-> "", at |-> ""]
NoTask == [phase |-> 0, task |-> 0]

PoolRest ==
    /\ proc = "running"
    /\ exitCause = NoCause
    /\ exitTask = NoTask
    /\ mpc = "start"
    /\ products = <<>>
    /\ categories = <<>>
    /\ pageCount = 0
    /\ indicator = [kind |-> "unread", text |-> <<>>]
    /\ results = <<>>
    /\ sentLog = [ph \in 1..2 |-> <<>>]
    /\ closed = [ph \in 1..2 |-> FALSE]
    /\ wpc = [w \in Workers |-> "idle"]
    /\ wtask = [w \in Workers |-> 0]
    /\ wurl = [w \in Workers |-> <<>>]
    /\ wlinks = [w \in Workers |-> <<>>]
    /\ loaded = [w \in Workers |-> <<>>]
    /\ sessionFailed = {}
    /\ recvCount = [ph \in 1..2 |-> [i \in TaskIds |-> 0]]
    /\ failedRecv = {}
    /\ handled = [ph \in 1..2 |-> [i \in TaskIds |-> 0]]
    /\ loadFailed = {}
    /\ extracted = {}

PoolInit == PoolRest /\ stored \in InitialStores
PoolIdle == PoolRest /\ stored = <<>>

ScrollIdle ==
    /\ scObserved = <<>>
    /\ scIterations = 0
    /\ scState = "looping"

ExtractIdle ==
    /\ exPage = AllOkPage
    /\ exNext = 1
    /\ exProduct = NewProduct
    /\ exStatus = "running"
    /\ exRan = {}
    /\ exWritten = <<>>

FnIdle ==
    /\ fnName = ""
    /\ fnIn = <<>>
    /\ fnOut = <<>>
    /\ fnDone = FALSE

Init == PoolInit /\ ScrollIdle /\ ExtractIdle /\ FnIdle

(***************************************************************************)
(* The process                                                             *)
(***************************************************************************)
\* log.Fatalf (os.Exit(1)) or an unrecovered panic: the process is gone, with
\* every goroutine in it; nothing of the stores changes
Die(kind, at, phase, task) ==
    /\ proc' = "exited"
    /\ exitCause' = [kind |-> kind, at |-> at]
    /\ exitTask' = [phase |-> phase, task |-> task]
    /\ UNCHANGED <<mpc, stored, products, categories, pageCount, indicator, results,
                   sentLog, closed, wpc, wtask, wurl, wlinks, loaded, recvCount, failedRecv, handled,
                   loadFailed, extracted, scrollVars, extractVars, fnVars>>

\* the process goes on (the variables of the scroll loop and the pipeline
\* followed alone belong to no goroutine of the crawl)
Alive == UNCHANGED <<proc, exitCause, exitTask, scrollVars, extractVars, fnVars>>

\* a worker is through with its task and back at the head of its range loop
BackToRecv(w, ph, recv) ==
    /\ wpc' = [wpc EXCEPT ![w] = recv]
    /\ handled' = [handled EXCEPT ![ph][wtask[w]] = @ + 1]
    /\ wtask' = [wtask EXCEPT ![w] = 0]


(***************************************************************************)
(* main                                                                    *)
(***************************************************************************)
\* (mutation) discovery run whatever the collection holds
StartupAlwaysDiscovers ==
    /\ proc = "running" /\ mpc = "start"
    /\ \/ Die("startup", "main", 0, 0) /\ UNCHANGED sessionFailed
       \/ /\ mpc' = "p1_spawn"
          /\ Alive
          /\ UNCHANGED <<stored, products, categories, pageCount, indicator, results, sentLog,
                         closed, wpc, wtask, wurl, wlinks, loaded, sessionFailed,
                         recvCount, failedRecv, handled, loadFailed, extracted>>

\* start of main up to `if productURLCount == 0`: the Selenium service, the
\* MongoDB client and CountDocuments, each fatal on error
Startup ==
    /\ proc = "running" /\ mpc = "start"
    /\ \/ Die("startup", "main", 0, 0) /\ UNCHANGED sessionFailed
       \/ /\ mpc' = IF Len(stored) = 0 THEN "p1_spawn" ELSE "p2_find"
          /\ Alive
          /\ UNCHANGED <<stored, products, categories, pageCount, indicator, results, sentLog,
                         closed, wpc, wtask, wurl, wlinks, loaded, sessionFailed,
                         recvCount, failedRecv, handled, loadFailed, extracted>>

\* phase 1: make(chan string) and the numWorkers go statements
P1Spawn ==
    /\ proc = "running" /\ mpc = "p1_spawn"
    /\ wpc' = [w \in Workers |-> "u_start"]
    /\ mpc' = "p1_discover"
    /\ Alive
    /\ UNCHANGED <<stored, products, categories, pageCount, indicator, results, sentLog, closed,
                   wtask, wurl, wlinks, loaded, sessionFailed, recvCount, failedRecv, handled,
                   loadFailed, extracted>>

\* main's own session, the root page and the navigation anchors (each fatal
\* on error), then the loop that collects the category URLs
P1Discover ==
    /\ proc = "running" /\ mpc = "p1_discover"
    /\ \/ \E k \in {"session", "rootLoad", "navLookup"} :
            Die(k, "main", 0, 0) /\ UNCHANGED sessionFailed
       \/ \E elems \in SeqsUpTo(CategoryAnchors, MaxCategoryElems) :
            /\ categories' = CategoriesOf(elems)
            /\ mpc' = "p1_category"
            /\ Alive
            /\ UNCHANGED <<stored, products, pageCount, indicator, results, sentLog, closed, wpc,
                           wtask, wurl, wlinks, loaded, sessionFailed, recvCount, failedRecv,
                           handled, loadFailed, extracted>>

\* `for key, category := range categories { if key == 1 {` : the category at
\* Go index 1 is loaded (fatal on error) and its page count read
P1Category ==
    /\ proc = "running" /\ mpc = "p1_category"
    /\ IF Len(categories) >= 2
       THEN \/ Die("categoryLoad", "main", 0, 0) /\ UNCHANGED sessionFailed
            \/ \E ind \in PageTotalIndicators :
                 /\ pageCount' = getPageCount(ind)
                 /\ indicator' = ind
                 /\ mpc' = "p1_send"
                 /\ Alive
                 /\ UNCHANGED <<stored, products, categories, results, sentLog, closed,
                                wpc, wtask, wurl, wlinks, loaded, sessionFailed,
                                recvCount, failedRecv, handled, loadFailed, extracted>>
       ELSE /\ mpc' = "p1_close"
            /\ Alive
            /\ UNCHANGED <<stored, products, categories, pageCount, indicator, results, sentLog,
                           closed, wpc, wtask, wurl, wlinks, loaded, sessionFailed,
                           recvCount, failedRecv, handled, loadFailed, extracted>>

\* (mutation) the receiver gets the value, but the send does not complete: the
\* value is handed out again
HandoverLeavesValue(ph, w, url, next) ==
    LET i == Len(sentLog[ph]) + 1
    IN  /\ sentLog' = sentLog
        /\ recvCount' = [recvCount EXCEPT ![ph][i] = @ + 1]
        /\ failedRecv' = failedRecv
        /\ wtask' = [wtask EXCEPT ![w] = i]
        /\ wurl' = [wurl EXCEPT ![w] = url]
        /\ wpc' = [wpc EXCEPT ![w] = next]

\* a value passes through an unbuffered channel: the sender's send and one
\* receiver's receive complete together
Handover(ph, w, url, next) ==
    LET i == Len(sentLog[ph]) + 1
    IN  /\ sentLog' = [sentLog EXCEPT ![ph] = Append(@, url)]
        /\ recvCount' = [recvCount EXCEPT ![ph][i] = @ + 1]
        /\ failedRecv' = IF <<ph, w>> \in sessionFailed THEN failedRecv \cup {<<ph, i>>}
                          ELSE failedRecv
        /\ wtask' = [wtask EXCEPT ![w] = i]
        /\ wurl' = [wurl EXCEPT ![w] = url]
        /\ wpc' = [wpc EXCEPT ![w] = next]

\* `productUrlChan <- pageURL` for i := 1; i <= pageCount, met by the
\* `range productUrlChan` of worker w
P1Send(w) ==
    /\ proc = "running" /\ mpc = "p1_send"
    /\ Len(sentLog[1]) + 1 <= pageCount
    /\ wpc[w] = "u_recv"
    /\ Handover(1, w, PageURL(categories[2], Len(sentLog[1]) + 1), "u_get")
    /\ Alive
    /\ UNCHANGED <<mpc, stored, products, categories, pageCount, indicator, results, closed,
                   wlinks, loaded, sessionFailed, handled, loadFailed, extracted>>

\* whether main has left the loops that send on productUrlChan
P1SendingOver ==
    \/ mpc = "p1_close"
    \/ mpc = "p1_send" /\ Len(sentLog[1]) + 1 > pageCount

\* (mutation) the channel closed only when a task was sent over it
P1CloseAfterTasksOnly ==
    /\ proc = "running"
    /\ P1SendingOver
    /\ closed' = [closed EXCEPT ![1] = sentLog[1] # <<>>]
    /\ mpc' = "p1_wait"
    /\ Alive
    /\ UNCHANGED <<stored, products, categories, pageCount, indicator, results, sentLog, wpc,
                   wtask, wurl, wlinks, loaded, sessionFailed, recvCount, failedRecv, handled,
                   loadFailed, extracted>>

\* close(productUrlChan)
P1Close ==
    /\ proc = "running"
    /\ P1SendingOver
    /\ closed' = [closed EXCEPT ![1] = TRUE]
    /\ mpc' = "p1_wait"
    /\ Alive
    /\ UNCHANGED <<stored, products, categories, pageCount, indicator, results, sentLog, wpc,
                   wtask, wurl, wlinks, loaded, sessionFailed, recvCount, failedRecv, handled,
                   loadFailed, extracted>>

\* (mutation) a barrier that one wg.Done() opens
WaitOverAtFirstDone == \E w \in Workers : wpc[w] = "exited"

\* wg.Wait() returns once every worker has called wg.Done()
WaitOver == \A w \in Workers : wpc[w] = "exited"

P1Wait ==
    /\ proc = "running" /\ mpc = "p1_wait"
    /\ WaitOver
    /\ mpc' = "p2_find"
    /\ Alive
    /\ UNCHANGED <<stored, products, categories, pageCount, indicator, results, sentLog, closed,
                   wpc, wtask, wurl, wlinks, loaded, sessionFailed, recvCount, failedRecv, handled,
                   loadFailed, extracted>>

\* Find with SetLimit(300) and cursor.All, each fatal on error; then
\* `if len(results) != 0`
P2Find ==
    /\ proc = "running" /\ mpc = "p2_find"
    /\ \/ Die("find", "main", 0, 0) /\ UNCHANGED sessionFailed
       \/ /\ results' = FindRows(stored, FindLimit)
          /\ mpc' = IF Len(results') # 0 THEN "p2_spawn" ELSE "done"
          /\ Alive
          /\ UNCHANGED <<stored, products, categories, pageCount, indicator, sentLog, closed, wpc,
                         wtask, wurl, wlinks, loaded, sessionFailed, recvCount, failedRecv, handled,
                         loadFailed, extracted>>

\* phase 2: make(chan string) and the numWorkers go statements
P2Spawn ==
    /\ proc = "running" /\ mpc = "p2_spawn"
    /\ wpc' = [w \in Workers |-> "p_start"]
    /\ mpc' = "p2_send"
    /\ Alive
    /\ UNCHANGED <<stored, products, categories, pageCount, indicator, results, sentLog, closed,
                   wtask, wurl, wlinks, loaded, sessionFailed, recvCount, failedRecv, handled,
                   loadFailed, extracted>>

\* `productChan <- result.URL` for each result, met by the `range urlChan`
\* of worker w
P2Send(w) ==
    /\ proc = "running" /\ mpc = "p2_send"
    /\ Len(sentLog[2]) + 1 <= Len(results)
    /\ wpc[w] = "p_recv"
    /\ Handover(2, w, results[Len(sentLog[2]) + 1].url, "p_get")
    /\ Alive
    /\ UNCHANGED <<mpc, stored, products, categories, pageCount, indicator, results, closed,
                   wlinks, loaded, sessionFailed, handled, loadFailed, extracted>>

P2SendingOver == mpc = "p2_send" /\ Len(sentLog[2]) + 1 > Len(results)

\* close(productChan)
P2Close ==
    /\ proc = "running"
    /\ P2SendingOver
    /\ closed' = [closed EXCEPT ![2] = TRUE]
    /\ mpc' = "p2_wait"
    /\ Alive
    /\ UNCHANGED <<stored, products, categories, pageCount, indicator, results, sentLog, wpc,
                   wtask, wurl, wlinks, loaded, sessionFailed, recvCount, failedRecv, handled,
                   loadFailed, extracted>>

\* wg.Wait(), then "Crawling finished!"
P2Wait ==
    /\ proc = "running" /\ mpc = "p2_wait"
    /\ WaitOver
    /\ mpc' = "done"
    /\ Alive
    /\ UNCHANGED <<stored, products, categories, pageCount, indicator, results, sentLog, closed,
                   wpc, wtask, wurl, wlinks, loaded, sessionFailed, recvCount, failedRecv, handled,
                   loadFailed, extracted>>


(***************************************************************************)
(* processURLs: a worker of phase 1                                        *)
(***************************************************************************)
\* (mutation) the session error answered as processProduct answers it: the
\* worker logs and returns
UStartReturns(w) ==
    /\ proc = "running" /\ wpc[w] = "u_start"
    /\ \/ /\ wpc' = [wpc EXCEPT ![w] = "exited"]
          /\ sessionFailed' = sessionFailed \cup {<<1, w>>}
       \/ /\ wpc' = [wpc EXCEPT ![w] = "u_recv"]
          /\ UNCHANGED sessionFailed
    /\ Alive
    /\ UNCHANGED <<mpc, stored, products, categories, pageCount, indicator, results,
                   sentLog, closed, wtask, wurl, wlinks, loaded, recvCount, failedRecv,
                   handled, loadFailed, extracted>>

\* selenium.NewRemote; its error is answered with log.Fatalf
UStart(w) ==
    /\ proc = "running" /\ wpc[w] = "u_start"
    /\ \/ /\ Die("session", "processURLs", 1, 0)
          /\ sessionFailed' = sessionFailed \cup {<<1, w>>}
       \/ /\ wpc' = [wpc EXCEPT ![w] = "u_recv"]
          /\ Alive
          /\ UNCHANGED <<mpc, stored, products, categories, pageCount, indicator, results, sentLog,
                         closed, wtask, wurl, wlinks, loaded, sessionFailed, recvCount, failedRecv,
                         handled, loadFailed, extracted>>

\* the range loop ends on the closed channel; the deferred wd.Quit and
\* wg.Done run
UExit(w) ==
    /\ proc = "running" /\ wpc[w] = "u_recv"
    /\ closed[1]
    /\ wpc' = [wpc EXCEPT ![w] = "exited"]
    /\ wurl' = [wurl EXCEPT ![w] = <<>>]
    /\ wlinks' = [wlinks EXCEPT ![w] = <<>>]
    /\ Alive
    /\ UNCHANGED <<mpc, stored, products, categories, pageCount, indicator, results, sentLog,
                   closed, wtask, loaded, sessionFailed, recvCount, failedRecv, handled,
                   loadFailed, extracted>>

\* wd.Get(url): on error the task is given up (continue); closeModals, which
\* follows, changes nothing that is modelled
UGet(w) ==
    /\ proc = "running" /\ wpc[w] = "u_get"
    /\ \/ BackToRecv(w, 1, "u_recv")
       \/ /\ wpc' = [wpc EXCEPT ![w] = "u_scroll"]
          /\ UNCHANGED <<wtask, handled>>
    /\ Alive
    /\ UNCHANGED <<mpc, stored, products, categories, pageCount, indicator, results, sentLog,
                   closed, wurl, wlinks, loaded, sessionFailed, recvCount, failedRecv, loadFailed,
                   extracted>>

\* scrollToBottom, one pass through its loop
UScroll(w) ==
    /\ proc = "running" /\ wpc[w] = "u_scroll"
    /\ \E r \in Readings :
         CASE ScrollIteration(r) = "fatal" ->
                Die("scroll", r.err, 1, wtask[w]) /\ UNCHANGED sessionFailed
           [] ScrollIteration(r) = "break" ->
                /\ wpc' = [wpc EXCEPT ![w] = "u_find"]
                /\ Alive
                /\ UNCHANGED <<mpc, stored, products, categories, pageCount, indicator, results,
                               sentLog, closed, wtask, wurl, wlinks, loaded,
                               sessionFailed, recvCount, failedRecv, handled, loadFailed, extracted>>
           [] OTHER -> UNCHANGED vars

\* (mutation) the links handed to the insert loop whatever extractPageNumber
\* and extractCategory return
UFindUnchecked(w) ==
    /\ proc = "running" /\ wpc[w] = "u_find"
    /\ \/ /\ BackToRecv(w, 1, "u_recv")
          /\ UNCHANGED wlinks
       \/ \E elems \in SeqsUpTo(ProductAnchors, MaxLinks) :
            /\ wlinks' = [wlinks EXCEPT ![w] = elems]
            /\ wpc' = [wpc EXCEPT ![w] = "u_insert"]
            /\ UNCHANGED <<wtask, handled>>
    /\ Alive
    /\ UNCHANGED <<mpc, stored, products, categories, pageCount, indicator, results, sentLog,
                   closed, wurl, loaded, sessionFailed, recvCount, failedRecv, loadFailed, extracted>>

\* FindElements of the product links (on error: continue), then
\* extractPageNumber and extractCategory (on -1 or "": continue)
UFind(w) ==
    /\ proc = "running" /\ wpc[w] = "u_find"
    /\ \/ /\ BackToRecv(w, 1, "u_recv")
          /\ UNCHANGED wlinks
       \/ \E elems \in SeqsUpTo(ProductAnchors, MaxLinks) :
            IF extractPageNumber(wurl[w]) = -1 \/ extractCategory(wurl[w]) = <<>>
            THEN /\ BackToRecv(w, 1, "u_recv")
                 /\ UNCHANGED wlinks
            ELSE /\ wlinks' = [wlinks EXCEPT ![w] = elems]
                 /\ wpc' = [wpc EXCEPT ![w] = "u_insert"]
                 /\ UNCHANGED <<wtask, handled>>
    /\ Alive
    /\ UNCHANGED <<mpc, stored, products, categories, pageCount, indicator, results, sentLog,
                   closed, wurl, loaded, sessionFailed, recvCount, failedRecv, loadFailed, extracted>>

\* the ProductURL a worker builds for an href
ProductURLRow(url, href) ==
    [category |-> extractCategory(url), pageNo |-> extractPageNumber(url),
     url |-> baseURL \o href]

\* `for _, elem := range productElems`: one element; an href that cannot be
\* read or is empty is skipped, InsertOne may fail (logged)
UInsert(w) ==
    /\ proc = "running" /\ wpc[w] = "u_insert"
    /\ IF wlinks[w] = <<>>
       THEN /\ BackToRecv(w, 1, "u_recv")
            /\ UNCHANGED <<stored, wlinks>>
       ELSE /\ wlinks' = [wlinks EXCEPT ![w] = Tail(@)]
            /\ UNCHANGED <<wpc, wtask, handled>>
            /\ IF Head(wlinks[w]).err \/ Head(wlinks[w]).href = <<>>
               THEN UNCHANGED stored
               ELSE \/ stored' = Append(stored, ProductURLRow(wurl[w], Head(wlinks[w]).href))
                    \/ UNCHANGED stored
    /\ Alive
    /\ UNCHANGED <<mpc, products, categories, pageCount, indicator, results, sentLog, closed,
                   wurl, loaded, sessionFailed, recvCount, failedRecv, loadFailed, extracted>>

(***************************************************************************)
(* processProduct: a worker of phase 2                                     *)
(***************************************************************************)
\* (mutation) the session error answered as processURLs answers it: log.Fatalf
PStartFatal(w) ==
    /\ proc = "running" /\ wpc[w] = "p_start"
    /\ \/ /\ Die("session", "processProduct", 2, 0)
          /\ sessionFailed' = sessionFailed \cup {<<2, w>>}
       \/ /\ wpc' = [wpc EXCEPT ![w] = "p_recv"]
          /\ Alive
          /\ UNCHANGED <<mpc, stored, products, categories, pageCount, indicator,
                         results, sentLog, closed, wtask, wurl, wlinks, loaded,
                         sessionFailed, recvCount, failedRecv, handled, loadFailed,
                         extracted>>

\* selenium.NewRemote; on error the worker logs and returns (wg.Done runs)
PStart(w) ==
    /\ proc = "running" /\ wpc[w] = "p_start"
    /\ \/ /\ wpc' = [wpc EXCEPT ![w] = "exited"]
          /\ sessionFailed' = sessionFailed \cup {<<2, w>>}
       \/ /\ wpc' = [wpc EXCEPT ![w] = "p_recv"]
          /\ UNCHANGED sessionFailed
    /\ Alive
    /\ UNCHANGED <<mpc, stored, products, categories, pageCount, indicator, results, sentLog,
                   closed, wtask, wurl, wlinks, loaded, recvCount, failedRecv, handled, loadFailed,
                   extracted>>

\* the range loop ends on the closed channel; wd.Quit and wg.Done run
PExit(w) ==
    /\ proc = "running" /\ wpc[w] = "p_recv"
    /\ closed[2]
    /\ wpc' = [wpc EXCEPT ![w] = "exited"]
    /\ wurl' = [wurl EXCEPT ![w] = <<>>]
    /\ loaded' = [loaded EXCEPT ![w] = <<>>]
    /\ Alive
    /\ UNCHANGED <<mpc, stored, products, categories, pageCount, indicator, results, sentLog,
                   closed, wtask, wlinks, sessionFailed, recvCount, failedRecv, handled, loadFailed,
                   extracted>>

\* scrapeProduct up to closeModals: wd.Get(url), whose error is only logged;
\* on error the session keeps showing the page it showed before
PGet(w) ==
    /\ proc = "running" /\ wpc[w] = "p_get"
    /\ \/ /\ loaded' = [loaded EXCEPT ![w] = wurl[w]]
          /\ UNCHANGED loadFailed
       \/ /\ loadFailed' = loadFailed \cup {wtask[w]}
          /\ UNCHANGED loaded
    /\ wpc' = [wpc EXCEPT ![w] = "p_scroll"]
    /\ Alive
    /\ UNCHANGED <<mpc, stored, products, categories, pageCount, indicator, results, sentLog,
                   closed, wtask, wurl, wlinks, sessionFailed, recvCount, failedRecv, handled,
                   extracted>>

\* scrollToBottom, one pass through its loop
PScroll(w) ==
    /\ proc = "running" /\ wpc[w] = "p_scroll"
    /\ \E r \in Readings :
         CASE ScrollIteration(r) = "fatal" ->
                Die("scroll", r.err, 2, wtask[w]) /\ UNCHANGED sessionFailed
           [] ScrollIteration(r) = "break" ->
                /\ wpc' = [wpc EXCEPT ![w] = "p_extract"]
                /\ Alive
                /\ UNCHANGED <<mpc, stored, products, categories, pageCount, indicator, results,
                               sentLog, closed, wtask, wurl, wlinks, loaded,
                               sessionFailed, recvCount, failedRecv, handled, loadFailed, extracted>>
           [] OTHER -> UNCHANGED vars

\* the record a worker inserts: productURL is the task's URL, its content
\* comes from the page the session shows
ProductRow(w) == [task |-> wtask[w], productURL |-> wurl[w], contentOf |-> loaded[w]]

\* (mutation) the record is written as it stands when the pipeline fails
PExtractWritesPartial(w) ==
    /\ proc = "running" /\ wpc[w] = "p_extract"
    /\ \E e \in ScrapeEnds :
         IF e.status = "returned"
         THEN /\ extracted' = extracted \cup {wtask[w]}
              /\ wpc' = [wpc EXCEPT ![w] = "p_insert"]
              /\ Alive
              /\ UNCHANGED <<mpc, stored, products, categories, pageCount, indicator,
                             results, sentLog, closed, wtask, wurl, wlinks, loaded,
                             sessionFailed, recvCount, failedRecv, handled, loadFailed>>
         ELSE /\ proc' = "exited"
              /\ exitCause' = [kind |-> e.on, at |-> e.at]
              /\ exitTask' = [phase |-> 2, task |-> wtask[w]]
              /\ products' = Append(products, ProductRow(w))
              /\ UNCHANGED <<mpc, stored, categories, pageCount, indicator, results,
                             sentLog, closed, wpc, wtask, wurl, wlinks, loaded,
                             sessionFailed, recvCount, failedRecv, handled, loadFailed,
                             extracted, scrollVars, extractVars, fnVars>>

\* the extraction pipeline of scrapeProduct on the page the session shows
PExtract(w) ==
    /\ proc = "running" /\ wpc[w] = "p_extract"
    /\ \E e \in ScrapeEnds :
         IF e.status = "returned"
         THEN /\ extracted' = extracted \cup {wtask[w]}
              /\ wpc' = [wpc EXCEPT ![w] = "p_insert"]
              /\ Alive
              /\ UNCHANGED <<mpc, stored, products, categories, pageCount, indicator, results,
                             sentLog, closed, wtask, wurl, wlinks, loaded,
                             sessionFailed, recvCount, failedRecv, handled, loadFailed>>
         ELSE Die(e.on, e.at, 2, wtask[w]) /\ UNCHANGED sessionFailed

\* `if product != nil` (scrapeProduct never returns nil), InsertOne, whose
\* error is ignored
PInsert(w) ==
    /\ proc = "running" /\ wpc[w] = "p_insert"
    /\ \/ products' = Append(products, ProductRow(w))
       \/ UNCHANGED products
    /\ BackToRecv(w, 2, "p_recv")
    /\ Alive
    /\ UNCHANGED <<mpc, stored, categories, pageCount, indicator, results, sentLog, closed, wurl,
                   wlinks, loaded, sessionFailed, recvCount, failedRecv, loadFailed, extracted>>

(***************************************************************************)
(* The crawl                                                               *)
(***************************************************************************)
Next ==
    \/ Startup \/ P1Spawn \/ P1Discover \/ P1Category \/ P1Close \/ P1Wait
    \/ P2Find \/ P2Spawn \/ P2Close \/ P2Wait
    \/ \E w \in Workers :
         \/ P1Send(w) \/ UStart(w) \/ UExit(w) \/ UGet(w) \/ UScroll(w)
         \/ UFind(w) \/ UInsert(w)
         \/ P2Send(w) \/ PStart(w) \/ PExit(w) \/ PGet(w) \/ PScroll(w)
         \/ PExtract(w) \/ PInsert(w)

Spec == Init /\ [][Next]_vars


(***************************************************************************)
(* scrollToBottom followed alone, on the readings it is fed                *)
(***************************************************************************)
ScrollInit == PoolIdle /\ ScrollIdle /\ ExtractIdle /\ FnIdle

\* one pass through the loop body: scrollBy, the settle delay, the three
\* reads and the comparison
ScrollPass ==
    /\ scState = "looping"
    /\ scIterations < MaxScrollIter
    /\ \E r \in Readings :
         /\ scObserved' = Append(scObserved, r)
         /\ scIterations' = scIterations + 1
         /\ scState' = CASE ScrollIteration(r) = "break" -> "returned"
                         [] ScrollIteration(r) = "fatal" -> "fatal"
                         [] OTHER -> "looping"
    /\ UNCHANGED <<poolVars, extractVars, fnVars>>

ScrollNext == ScrollPass

ScrollSpec == ScrollInit /\ [][ScrollNext]_vars

(***************************************************************************)
(* The extraction pipeline followed alone, step by step, on one page       *)
(***************************************************************************)
ExtractInit ==
    /\ PoolIdle /\ ScrollIdle /\ FnIdle
    /\ exPage \in Pages
    /\ exNext = 1
    /\ exProduct = NewProduct
    /\ exStatus = "running"
    /\ exRan = {}
    /\ exWritten = <<>>

\* the next step of the pipeline
ExtractStep ==
    /\ exStatus = "running"
    /\ exNext <= Len(Steps)
    /\ LET r == StepResult(exPage, Steps[exNext])
       IN  IF r \in {"fatal", "panic"}
           THEN /\ exStatus' = r
                /\ UNCHANGED <<exNext, exProduct, exRan>>
           ELSE /\ exProduct' = StepStore(exProduct, exPage, Steps[exNext])
                /\ exNext' = exNext + 1
                /\ exRan' = exRan \cup {Steps[exNext].name}
                /\ UNCHANGED exStatus
    /\ UNCHANGED <<exPage, exWritten, poolVars, scrollVars, fnVars>>

\* `return product`
ExtractReturn ==
    /\ exStatus = "running"
    /\ exNext > Len(Steps)
    /\ exStatus' = "returned"
    /\ UNCHANGED <<exPage, exNext, exProduct, exRan, exWritten, poolVars, scrollVars, fnVars>>

\* the URL of the task the pipeline is followed for
ExtractURL == baseURL \o HrefProduct \o <<"1">>

\* processProduct's `if product != nil { InsertOne }` for the Product
\* returned; the error of InsertOne is ignored
ExtractInsert ==
    /\ exStatus = "returned"
    /\ \/ /\ exWritten' = Append(exWritten, [productURL |-> ExtractURL, fields |-> exProduct])
          /\ exStatus' = "inserted"
       \/ /\ exStatus' = "insertFailed"
          /\ UNCHANGED exWritten
    /\ UNCHANGED <<exPage, exNext, exProduct, exRan, poolVars, scrollVars, fnVars>>

ExtractNext == ExtractStep \/ ExtractReturn \/ ExtractInsert

ExtractSpec == ExtractInit /\ [][ExtractNext]_vars


(***************************************************************************)
(* The size chart of scrapeProduct                                         *)
(***************************************************************************)
\* most header cells of the size-chart table
MaxHeaders == 2
\* most cells of one row of the table body
MaxCells == 2

\* the texts a header cell shows
HeaderTexts == {<<>>, <<"S">>, <<"M">>}

\* the text of cell j of row r of the table body
CellText(r, j) == Itoa(r) \o <<".">> \o Itoa(j)

\* the table body whose row r holds lens[r] cells
Tbody(lens) == [r \in 1..Len(lens) |-> [j \in 1..lens[r] |-> CellText(r, j)]]

\* the size-chart tables: the header texts and the rows of the body
SizeChartPages ==
    {[headers |-> h, tbody |-> Tbody(l)] :
        h \in SeqsUpTo(HeaderTexts, MaxHeaders),
        l \in SeqsUpTo(0..MaxCells, MaxHeaders + 1)}

\* `if text != "" { headers = append(headers, text) }`
RECURSIVE NonEmptyTexts(_)
NonEmptyTexts(texts) ==
    IF texts = <<>> THEN <<>>
    ELSE IF Head(texts) # <<>> THEN <<Head(texts)>> \o NonEmptyTexts(Tail(texts))
    ELSE NonEmptyTexts(Tail(texts))

\* the spans FindElements returns for `.sizeChartTRow:nth-of-type(n)`
RowCells(tbody, n) == IF n <= Len(tbody) THEN tbody[n] ELSE <<>>

\* a map[string]string is the set of its <<key, value>> pairs; a nil map
\* has none
NilEntry == {}

\* make([]map[string]string, len(sizeKeys)), then entry j set for each cell
\* j of the row
SizeColumn(sizeKeys, rows) ==
    [j \in 1..Len(sizeKeys) |->
        IF j <= Len(rows) THEN {<<sizeKeys[j], rows[j]>>} ELSE NilEntry]

\* the size chart built from the table (its lookups and reads succeeding):
\* sizeChart[header][j] with j >= len(sizeKeys) is an index out of range,
\* a run-time panic; a header text met again replaces the earlier column
sizeChartOf(page) ==
    LET headers == NonEmptyTexts(page.headers)
        sizeKeys == RowCells(page.tbody, 1)
        rowsOf(i) == RowCells(page.tbody, i + 1)
        last(h) == CHOOSE i \in 1..Len(headers) :
                      /\ headers[i] = h
                      /\ \A k \in 1..Len(headers) : headers[k] = h => k <= i
    IN  IF \E i \in 1..Len(headers) : Len(rowsOf(i)) > Len(sizeKeys)
        THEN [status |-> "panic", chart |-> <<>>]
        ELSE [status |-> "returned",
              chart |-> [h \in {headers[i] : i \in 1..Len(headers)} |->
                            SizeColumn(sizeKeys, rowsOf(last(h)))]]

(***************************************************************************)
(* Elements and texts of a product page                                    *)
(***************************************************************************)
\* what a FindElement followed by Text() or GetAttribute() meets: no element
\* (the lookup's error), an element whose read fails (the read then returns
\* the empty string with its error), or an element and its text
Elem(text) == [found |-> TRUE, err |-> FALSE, text |-> text]
Missing == [found |-> FALSE, err |-> FALSE, text |-> <<>>]
Unreadable == [found |-> TRUE, err |-> TRUE, text |-> <<>>]

\* `if err == nil { t, err := e.Text(); if err == nil && t != "" { v = t } }`
TextOrEmpty(el) == IF el.found /\ ~el.err THEN el.text ELSE <<>>

\* strings.Split(s, c) for a one-character separator c
RECURSIVE Split(_, _)
Split(s, c) ==
    IF \A k \in 1..Len(s) : s[k] # c THEN <<s>>
    ELSE LET p == CHOOSE q \in 1..Len(s) :
                     s[q] = c /\ \A r \in 1..(q - 1) : s[r] # c
         IN  <<SubSeq(s, 1, p - 1)>> \o Split(SubSeq(s, p + 1, Len(s)), c)

\* strings.Trim(s, cutset)
RECURSIVE Trim(_, _)
Trim(s, cutset) ==
    IF s = <<>> THEN s
    ELSE IF s[1] \in cutset THEN Trim(Tail(s), cutset)
    ELSE IF s[Len(s)] \in cutset THEN Trim(SubSeq(s, 1, Len(s) - 1), cutset)
    ELSE s

\* a float64 that is a decimal fraction: num / den with den a power of ten,
\* in lowest such terms
RECURSIVE Float(_, _)
Float(num, den) ==
    IF den > 1 /\ num % 10 = 0 THEN Float(num \div 10, den \div 10)
    ELSE [num |-> num, den |-> den]
FloatZero == Float(0, 1)

RECURSIVE Pow10(_)
Pow10(n) == IF n = 0 THEN 1 ELSE 10 * Pow10(n - 1)

\* strconv.ParseFloat(s, 64) on texts of signs, decimal digits and points
\* (exponents, hexadecimal forms, inf and nan need characters the texts of
\* the model do not hold): an optional sign, digits with at most one point,
\* at least one digit; [ok |-> FALSE] stands for the returned error
ParseFloat(s) ==
    LET signed == s # <<>> /\ s[1] \in {"+", "-"}
        body == IF signed THEN Tail(s) ELSE s
        points == {k \in 1..Len(body) : body[k] = "."}
        digits == SelectSeq(body, LAMBDA c : c # ".")
    IN  IF \/ digits = <<>>
           \/ \E k \in 1..Len(body) : body[k] \notin DigitSet \cup {"."}
           \/ Cardinality(points) > 1
        THEN [ok |-> FALSE, val |-> FloatZero]
        ELSE LET frac == IF points = {} THEN 0
                         ELSE Len(body) - (CHOOSE k \in points : TRUE)
                 n == DigitsToInt(digits)
             IN  [ok |-> TRUE,
                  val |-> Float(IF signed /\ s[1] = "-" THEN 0 - n ELSE n, Pow10(frac))]

(***************************************************************************)
(* The reviews of scrapeProduct                                            *)
(***************************************************************************)
\* decimal numerals and, written down independently, the numbers they denote
Numerals ==
    {[text |-> <<"5">>, value |-> [num |-> 5, den |-> 1]],
     [text |-> <<"4", ".", "5">>, value |-> [num |-> 45, den |-> 10]],
     [text |-> <<"5", ".", "0">>, value |-> [num |-> 5, den |-> 1]],
     [text |-> <<"1", "0">>, value |-> [num |-> 10, den |-> 1]]}

\* the title attribute of a review's rating image: value/total forms (the
\* total also with blanks around it), and texts that are not of that form
RatingTitles ==
    {v.text \o <<"/">> \o t.text : v \in Numerals, t \in Numerals}
        \cup {v.text \o <<"/", " ">> \o t.text \o <<" ">> : v \in Numerals, t \in Numerals}
        \cup {<<>>, <<"5">>, <<"4", ".", "5">>, <<"/">>, <<"4", "/">>, <<"4", "/", "x">>,
              <<"4", "/", "5", "/", "6">>}

\* what the rating image of a review block can present
RatingElems == {Missing, Unreadable} \cup {Elem(t) : t \in RatingTitles}
\* what each of the other sub-elements can present
TextElems == {Missing, Unreadable, Elem(<<>>), Elem(<<"a">>)}

\* the review blocks
ReviewBlocks ==
    [rating : RatingElems, date : TextElems, title : TextElems,
     description : TextElems, reviewId : TextElems]
\* the blocks that make up the lists of two
PairedBlocks ==
    [rating : {Missing, Elem(<<"4", ".", "5", "/", "5">>), Elem(<<"5">>)},
     date : {Elem(<<"a">>)}, title : {Missing}, description : {Elem(<<>>)},
     reviewId : {Unreadable}]
\* the lists of review blocks FindElements returns
ReviewLists ==
    {<<>>} \cup {<<b>> : b \in ReviewBlocks}
        \cup {<<b, c>> : b \in PairedBlocks, c \in PairedBlocks}

\* (mutation) the first segment of the split parsed
reviewRatingFirstSegment(el) ==
    IF ~el.found THEN [status |-> "returned", val |-> FloatZero]
    ELSE LET ratingText == Split(el.text, "/")
         IN  IF ~el.err /\ el.text # <<>>
             THEN IF Len(ratingText) < 2
                  THEN [status |-> "panic", val |-> FloatZero]
                  ELSE LET convertedRating == ParseFloat(Trim(ratingText[1], {" "}))
                       IN  [status |-> "returned",
                            val |-> IF convertedRating.ok THEN convertedRating.val
                                    ELSE FloatZero]
             ELSE [status |-> "returned", val |-> FloatZero]

\* review_rating: ratingText[1] (Go index) of a split that has one segment
\* is an index out of range, a run-time panic
reviewRating(el) ==
    IF ~el.found THEN [status |-> "returned", val |-> FloatZero]
    ELSE LET ratingText == Split(el.text, "/")
         IN  IF ~el.err /\ el.text # <<>>
             THEN IF Len(ratingText) < 2
                  THEN [status |-> "panic", val |-> FloatZero]
                  ELSE LET convertedRating == ParseFloat(Trim(ratingText[2], {" "}))
                       IN  [status |-> "returned",
                            val |-> IF convertedRating.ok THEN convertedRating.val
                                    ELSE FloatZero]
             ELSE [status |-> "returned", val |-> FloatZero]

\* the Review of one block
reviewInfo(block) ==
    [Rating |-> reviewRating(block.rating).val,
     Date |-> TextOrEmpty(block.date),
     Title |-> TextOrEmpty(block.title),
     Description |-> TextOrEmpty(block.description),
     ReviewId |-> TextOrEmpty(block.reviewId)]

\* `for _, review := range reviewDiv`: product.Reviews, or the panic that
\* ends the process before anything is returned
RECURSIVE reviewsFrom(_, _)
reviewsFrom(blocks, reviews) ==
    IF blocks = <<>> THEN [status |-> "returned", reviews |-> reviews]
    ELSE IF reviewRating(Head(blocks).rating).status = "panic"
    THEN [status |-> "panic", reviews |-> <<>>]
    ELSE reviewsFrom(Tail(blocks), Append(reviews, reviewInfo(Head(blocks))))

reviewsOf(blocks) == reviewsFrom(blocks, <<>>)

(***************************************************************************)
(* The review summary of scrapeProduct                                     *)
(***************************************************************************)
\* most secondary-rating images of the summary
MaxSummaryImages == 5

ZeroPercent == <<"0", ".", "0", "0", "%">>

\* what the summary's elements can present
SummaryRatingElems == {Missing, Unreadable, Elem(<<>>), Elem(<<"4", ".", "5">>), Elem(<<"x">>)}
SummaryCountElems == {Missing, Unreadable, Elem(<<>>), Elem(<<"1", "2">>), Elem(<<"1", "x">>)}
SummaryRateElems == {Missing, Unreadable, Elem(<<>>), Elem(<<"9", "0", "%">>)}
\* the secondary-rating images found (none when the lookup fails), each
\* with what GetAttribute("title") gives
SummaryImageLists == SeqsUpTo({Unreadable, Elem(<<"a">>), Elem(<<"b">>)}, MaxSummaryImages)
SummaryPages ==
    [rating : SummaryRatingElems, count : SummaryCountElems,
     recommended : SummaryRateElems, images : SummaryImageLists]

\* `var reviewSummary ReviewSummary`
NewReviewSummary ==
    [Rating |-> FloatZero, NumberOfReviews |-> 0, RecommendedRate |-> <<>>,
     Fit |-> <<>>, Length |-> <<>>, Quality |-> <<>>, Comfort |-> <<>>]

\* the summary field that the image at Go index key is assigned to
SummaryFieldAt(key) ==
    CASE key = 0 -> "Fit" [] key = 1 -> "Length" [] key = 2 -> "Quality"
      [] key = 3 -> "Comfort" [] OTHER -> ""

\* `for key, overAll := range summaryElements` with its switch
RECURSIVE summaryImagesFrom(_, _, _)
summaryImagesFrom(images, key, summary) ==
    IF key >= Len(images) THEN summary
    ELSE summaryImagesFrom(images, key + 1,
            IF ~images[key + 1].err /\ SummaryFieldAt(key) # ""
            THEN [summary EXCEPT ![SummaryFieldAt(key)] = images[key + 1].text]
            ELSE summary)

\* product.ReviewSummary
reviewSummaryOf(page) ==
    LET convertedRating == ParseFloat(page.rating.text)
        convert == Atoi(page.count.text)
        rated == [NewReviewSummary EXCEPT !.Rating =
                    IF page.rating.found /\ ~page.rating.err /\ convertedRating.ok
                    THEN convertedRating.val ELSE FloatZero]
        counted == [rated EXCEPT !.NumberOfReviews =
                    IF page.count.found /\ ~page.count.err /\ convert.ok
                    THEN convert.val ELSE 0]
        recommended == [counted EXCEPT !.RecommendedRate =
                    IF ~page.recommended.found THEN <<>>
                    ELSE IF page.recommended.err THEN ZeroPercent
                    ELSE page.recommended.text]
    IN  summaryImagesFrom(page.images, 0, recommended)

(***************************************************************************)
(* The colour options of scrapeProduct                                     *)
(***************************************************************************)
\* most colour swatches of a page
MaxSwatches == 3

\* a swatch: whether its img is found, and what GetAttribute gives for src
\* and alt (on error, the empty string)
Swatches ==
    {[img |-> FALSE, src |-> Unreadable, alt |-> Unreadable]}
        \cup [img : {TRUE},
              src : {Unreadable, Elem(<<>>), Elem(<<"/", "1">>), Elem(<<"/", "2">>)},
              alt : {Unreadable, Elem(<<>>), Elem(<<"r">>), Elem(<<"g">>)}]
SwatchLists == SeqsUpTo(Swatches, MaxSwatches)

\* (mutation) an entry for every swatch that has an alt text
colorsOfAltOnly(swatches) ==
    LET entry(sw) == IF sw.img /\ sw.alt.text # <<>>
                     THEN <<[Path |-> baseURL \o sw.src.text, Color |-> sw.alt.text]>>
                     ELSE <<>>
        F[k \in 0..Len(swatches)] ==
            IF k = 0 THEN <<>> ELSE F[k - 1] \o entry(swatches[k])
    IN  F[Len(swatches)]

\* `for _, element := range colorOptionElements`: product.AvailableColors
RECURSIVE colorsOf(_)
colorsOf(swatches) ==
    IF swatches = <<>> THEN <<>>
    ELSE LET sw == Head(swatches)
             imageSrc == sw.src.text
             color == sw.alt.text
         IN  IF sw.img /\ imageSrc # <<>> /\ color # <<>>
             THEN <<[Path |-> baseURL \o imageSrc, Color |-> color]>> \o colorsOf(Tail(swatches))
             ELSE colorsOf(Tail(swatches))

(***************************************************************************)
(* The coordinated products of scrapeProduct                               *)
(***************************************************************************)
\* most cross-sell cards of a page
MaxCards == 2

ProductsPrefix == baseURL \o <<"/", "p", "r", "o", "d", "u", "c", "t", "s", "/">>

\* a card: whether its `.coordinate_image img` is found, what GetAttribute
\* gives for its alt and src, and its price element
Cards ==
    [img : {FALSE}, alt : {Unreadable}, src : {Unreadable},
     price : {Missing, Unreadable, Elem(<<"9">>)}]
        \cup [img : {TRUE},
              alt : {Unreadable, Elem(<<"t">>)},
              src : {Unreadable, Elem(<<>>), Elem(<<"/", "a", "/", "b">>),
                     Elem(<<"/", "a", "/", "b", "/", "c">>),
                     Elem(<<"a", "/", "b", "/", "c", "/", "d", "/", "e">>)},
              price : {Missing, Unreadable, Elem(<<"9">>)}]
CardLists == SeqsUpTo(Cards, MaxCards)

\* the CoordinatedProduct of a card whose img was found
coorProduct(card) ==
    LET imageURL == card.src.text
        urlParts == Split(imageURL, "/")
        productNumber == IF Len(urlParts) > 3 THEN urlParts[4] ELSE <<>>
    IN  [Title |-> IF ~card.alt.err THEN card.alt.text ELSE <<>>,
         Price |-> TextOrEmpty(card.price),
         Path |-> IF ~card.src.err THEN baseURL \o imageURL ELSE <<>>,
         ProductNumber |-> productNumber,
         ProductURL |-> ProductsPrefix \o productNumber]

\* `for _, productElement := range productElements`: a card whose img is
\* not found leaves productNameElement nil, and the GetAttribute("src")
\* called on it is a nil dereference, a run-time panic
RECURSIVE coordinatedFrom(_, _)
coordinatedFrom(cards, coordinated) ==
    IF cards = <<>> THEN [status |-> "returned", coordinated |-> coordinated]
    ELSE IF ~Head(cards).img THEN [status |-> "panic", coordinated |-> <<>>]
    ELSE coordinatedFrom(Tail(cards), Append(coordinated, coorProduct(Head(cards))))

coordinatedOf(cards) == coordinatedFrom(cards, <<>>)

(***************************************************************************)
(* The URLs given to extractPageNumber and extractCategory                 *)
(***************************************************************************)
\* most query parameters of a URL
MaxParams == 2

\* query parameters, name and value
QueryParams ==
    [name : {<<"p", "a", "g", "e">>}, value : {<<>>, <<"2">>, <<"1", "0">>, <<"0", "7">>, <<"x">>}]
        \cup [name : {<<"c", "a", "t", "e", "g", "o", "r", "y">>},
              value : {<<>>, <<"a">>, <<"b", "-", "c">>}]
        \cup [name : {<<"p", "e", "r", "p", "a", "g", "e">>}, value : {<<"5">>}]
        \cup [name : {<<"s", "u", "b", "c", "a", "t", "e", "g", "o", "r", "y">>},
              value : {<<"z">>}]
        \cup [name : {<<"q">>}, value : {<<"1">>}]

\* name=value&name=value...
RECURSIVE QueryOf(_)
QueryOf(params) ==
    IF params = <<>> THEN <<>>
    ELSE Head(params).name \o <<"=">> \o Head(params).value
            \o (IF Len(params) > 1 THEN <<"&">> ELSE <<>>) \o QueryOf(Tail(params))

\* the URLs: the item listing of the site with a query
ItemPath == <<"/", "i", "t", "e", "m", "/">>
QueryURLs ==
    {baseURL \o ItemPath} \cup
    {baseURL \o ItemPath \o <<"?">> \o QueryOf(ps) : ps \in SeqsUpTo(QueryParams, MaxParams) \ {<<>>}}

(***************************************************************************)
(* One function of the extraction followed alone, on one input             *)
(***************************************************************************)
FnNames == {"sizeChart", "reviews", "reviewSummary", "colors", "coordinated",
            "extractPageNumber", "extractCategory"}

FnInputs(name) ==
    CASE name = "sizeChart" -> SizeChartPages
      [] name = "reviews" -> ReviewLists
      [] name = "reviewSummary" -> SummaryPages
      [] name = "colors" -> SwatchLists
      [] name = "coordinated" -> CardLists
      [] name = "extractPageNumber" -> QueryURLs
      [] name = "extractCategory" -> QueryURLs

FnInit ==
    /\ PoolIdle /\ ScrollIdle /\ ExtractIdle
    /\ fnName \in FnNames
    /\ fnIn \in FnInputs(fnName)
    /\ fnOut = <<>>
    /\ fnDone = FALSE

\* the function named comes back with its result
Applied(name, out) ==
    /\ fnName = name /\ ~fnDone
    /\ fnOut' = out
    /\ fnDone' = TRUE
    /\ UNCHANGED <<fnName, fnIn, poolVars, scrollVars, extractVars>>

ApplySizeChart == Applied("sizeChart", sizeChartOf(fnIn))
ApplyReviews == Applied("reviews", reviewsOf(fnIn))
ApplyReviewSummary == Applied("reviewSummary", reviewSummaryOf(fnIn))
ApplyColors == Applied("colors", colorsOf(fnIn))
ApplyCoordinated == Applied("coordinated", coordinatedOf(fnIn))
ApplyExtractPageNumber == Applied("extractPageNumber", extractPageNumber(fnIn))
ApplyExtractCategory == Applied("extractCategory", extractCategory(fnIn))

FnNext ==
    \/ ApplySizeChart
    \/ ApplyReviews
    \/ ApplyReviewSummary
    \/ ApplyColors
    \/ ApplyCoordinated
    \/ ApplyExtractPageNumber
    \/ ApplyExtractCategory

FnSpec == FnInit /\ [][FnNext]_vars


(***************************************************************************)
(* Properties                                                              *)
(***************************************************************************)
\* the phase whose worker goroutine w is (0: none is running)
WorkerPhase(w) ==
    CASE wpc[w] \in {"u_start", "u_recv", "u_get", "u_scroll", "u_find", "u_insert"} -> 1
      [] wpc[w] \in {"p_start", "p_recv", "p_get", "p_scroll", "p_extract", "p_insert"} -> 2
      [] OTHER -> 0

\* the workers of phase ph that hold task i
Holders(ph, i) == {w \in Workers : WorkerPhase(w) = ph /\ wtask[w] = i}

\* main is past the wg.Wait() of phase ph
PastBarrier(ph) ==
    IF ph = 1 THEN closed[1] /\ mpc \in {"p2_find", "p2_spawn", "p2_send", "p2_wait", "done"}
    ELSE closed[2] /\ mpc = "done"

\* C1: in both phases every task sent on the channel is received by exactly
\* one worker and is with that worker or finished by it, never twice; once
\* main is past the join barrier of a phase every task sent in it has been
\* processed exactly once.
C1_EachTaskExactlyOnce ==
    \A ph \in 1..2 : \A i \in TaskIds :
        /\ recvCount[ph][i] = (IF i <= Len(sentLog[ph]) THEN 1 ELSE 0)
        /\ handled[ph][i] + Cardinality(Holders(ph, i)) = recvCount[ph][i]
        /\ PastBarrier(ph) /\ i <= Len(sentLog[ph]) => handled[ph][i] = 1

\* both phases ran to their end, with 2 workers and 3 + 2 = 5 tasks
C1_Witness ==
    /\ mpc = "done"
    /\ Len(sentLog[1]) = 3 /\ Len(sentLog[2]) = 2
    /\ \A i \in 1..3 : handled[1][i] = 1
    /\ \A i \in 1..2 : handled[2][i] = 1

\* the tasks the producer of phase 1 has to send
Phase1TaskCount ==
    IF Len(categories) >= 2 /\ pageCount >= 1 THEN pageCount ELSE 0

\* C2: in each phase the channel is closed only after every task was sent,
\* and main is past the join barrier only after every worker of the phase has
\* exited, none of them holding a task.
C2_CloseAfterSends_BarrierAfterExits ==
    /\ closed[1] => Len(sentLog[1]) = Phase1TaskCount
    /\ closed[2] => Len(sentLog[2]) = Len(results)
    /\ \A ph \in 1..2 :
         PastBarrier(ph) =>
            \A w \in Workers : WorkerPhase(w) # ph /\ (WorkerPhase(w) = 0 => wtask[w] = 0)
    /\ mpc \in {"p2_find", "p2_spawn", "done"} =>
            \A w \in Workers : wpc[w] \in {"idle", "exited"} /\ wtask[w] = 0

\* both barriers passed, after at least two tasks in each phase
C2_Witness ==
    /\ mpc = "done"
    /\ closed[1] /\ Len(sentLog[1]) >= 2
    /\ closed[2] /\ Len(sentLog[2]) >= 2


\* a step's lookup, or its read of what the lookup found, failed
LookupOrReadFailures == {"finderr", "readerr", "innererr"}
LookupFailures == {"finderr", "innererr"}

\* C3: a selector lookup failure (or a page load error) in the task of one
\* worker never ends the process while another worker holds another task.
C3_LookupFailureStaysWithItsTask ==
    ~ /\ proc = "exited"
      /\ exitTask.task # 0
      /\ exitCause.kind \in LookupFailures \cup {"pageLoad"}
      /\ \E w \in Workers : wtask[w] \notin {0, exitTask.task}

\* C4: no step other than those of the size chart ends the pipeline when
\* its lookup or read fails, and the Product is returned after all steps ran.
C4_StepsOtherThanSizeChartAreSoft ==
    /\ \A i \in 1..Len(Steps) :
         Steps[i].field # "SizeChart" /\ exPage[Steps[i].name] \in LookupOrReadFailures
            => ~(exStatus \in {"fatal", "panic"} /\ exNext = i)
    /\ exStatus = "returned" => exRan = StepNames

\* the rows of the products collection written for task i of phase 2
RowsOf(i) == {k \in 1..Len(products) : products[k].task = i}

\* the failures that end the process from within a task of phase 2
HardFailure ==
    /\ proc = "exited"
    /\ exitTask.phase = 2 /\ exitTask.task # 0

\* C5: a Product is inserted at most once per task and only after
\* scrapeProduct has returned for it; a task still in progress has no record,
\* and neither has the task during which a hard failure ended the process.
C5_WrittenOnceWholeOrNotAtAll ==
    /\ \A i \in TaskIds : Cardinality(RowsOf(i)) <= 1
    /\ \A k \in 1..Len(products) : products[k].task \in extracted
    /\ \A w \in Workers : WorkerPhase(w) = 2 /\ wtask[w] # 0 => RowsOf(wtask[w]) = {}
    /\ HardFailure => RowsOf(exitTask.task) = {}

\* a size-chart lookup failure ended the process during one task after the
\* record of another had been written
C5_Witness ==
    /\ HardFailure
    /\ exitCause = [kind |-> "finderr", at |-> "SizeChart"]
    /\ Len(products) = 1
    /\ RowsOf(exitTask.task) = {}

\* C6: a phase-2 worker whose session cannot be established exits, having
\* received no task; that does not end the process; and once main is past the
\* barrier every task was processed (by the workers that remained).
C6_SessionFailureAbortsOnlyThatWorker ==
    /\ \A w \in Workers : <<2, w>> \in sessionFailed => wpc[w] = "exited" /\ wtask[w] = 0
    /\ failedRecv = {}
    /\ ~(proc = "exited" /\ exitCause = [kind |-> "session", at |-> "processProduct"])
    /\ PastBarrier(2) => \A i \in 1..Len(results) : handled[2][i] = 1

\* one worker failed to start, the other processed both tasks
C6_Witness ==
    /\ mpc = "done"
    /\ \E w \in Workers : <<2, w>> \in sessionFailed
    /\ Len(results) = 2 /\ Len(products) = 2
    /\ \A i \in 1..2 : handled[2][i] = 1

Phase1SessionFailed == \E w \in Workers : <<1, w>> \in sessionFailed

\* C7: once a phase-1 worker could not establish its session the process has
\* exited, phase 2 has not started and never starts, and from then on no task
\* is received or finished and nothing is written.
C7_Phase1SessionFailureEndsTheRun ==
    /\ [](Phase1SessionFailed =>
             /\ proc = "exited"
             /\ mpc \in {"p1_discover", "p1_category", "p1_send", "p1_close", "p1_wait"}
             /\ results = <<>> /\ products = <<>>)
    /\ [][Phase1SessionFailed =>
             UNCHANGED <<mpc, stored, products, results, sentLog, wpc, wtask,
                         recvCount, handled>>]_vars

\* the failure came while another worker was at work on a task and a
\* ProductURL had been written
C7_Witness ==
    /\ Phase1SessionFailed
    /\ Len(stored) >= 1
    /\ \E w \in Workers : wtask[w] # 0

\* the text t shows the integer n: its decimal digits, after a sign when
\* n is negative (or an optional + otherwise), with nothing but white space
\* before and after
Shows(t, n) ==
    \E lo \in 1..Len(t), hi \in 1..Len(t) :
        /\ \A k \in 1..Len(t) : (k < lo \/ k > hi) => t[k] \in WhiteSpace
        /\ IF n < 0 THEN SubSeq(t, lo, hi) = <<"-">> \o Itoa(0 - n)
           ELSE SubSeq(t, lo, hi) \in {Itoa(n), <<"+">> \o Itoa(n)}
ShownTotals == {n \in (0 - MaxPageTotal - 1)..(MaxPageTotal + 1) :
                  indicator.kind = "text" /\ Shows(indicator.text, n)}

\* the URL u is the category URL c followed by &page= and the decimal i
IsPageTask(u, c, i) ==
    LET from == Len(c) + Len(PageSuffix)
    IN  /\ Len(u) > from
        /\ SubSeq(u, 1, Len(c)) = c
        /\ SubSeq(u, Len(c) + 1, from) = PageSuffix
        /\ \A k \in (from + 1)..Len(u) : u[k] \in DigitSet
        /\ DigitsToInt(SubSeq(u, from + 1, Len(u))) = i

\* C8: pageCount is the integer the page-total indicator shows, or 1 when
\* there is no indicator or it shows no integer; the tasks sent are page=1,
\* page=2, ... in this order, and when the channel is closed they are exactly
\* page=1 .. page=pageCount (none when pageCount is below 1).
C8_PageCountTasksInOrder ==
    indicator.kind # "unread" =>
        /\ \A n \in ShownTotals : pageCount = n
        /\ ShownTotals = {} => pageCount = 1
        /\ \A i \in 1..Len(sentLog[1]) :
             i <= pageCount /\ IsPageTask(sentLog[1][i], categories[2], i)
        /\ closed[1] => Len(sentLog[1]) = (IF pageCount >= 1 THEN pageCount ELSE 0)

\* the indicator showed 3 and the three tasks were sent
C8_Witness ==
    /\ closed[1]
    /\ indicator.kind = "text" /\ TrimSpace(indicator.text) = <<"3">>
    /\ Len(sentLog[1]) = 3

\* C9: no Product is written for a task whose page failed to load, and no
\* record carries the content of a page other than its own URL's.
C9_FailedLoadWritesNothing ==
    \A k \in 1..Len(products) :
        /\ products[k].task \notin loadFailed
        /\ products[k].contentOf = products[k].productURL

\* the reading satisfies the termination test
Satisfying(r) == r.err = "none" /\ r.scrollTop + r.clientHeight >= r.scrollHeight
\* the readings before the first satisfying one
NonSatisfyingBefore(obs) ==
    Cardinality({k \in 1..Len(obs) : \A j \in 1..k : ~Satisfying(obs[j])})

\* C10 (as stated): when scrollToBottom returns, the loop has executed as
\* many iterations as there were non-satisfying readings before the first
\* satisfying one.
C10_IterationsEqualNonSatisfying ==
    scState = "returned" => scIterations = NonSatisfyingBefore(scObserved)

\* C10 (amended): scrollToBottom goes on looping as long as no reading
\* satisfies the test and returns on the first one that does, at the end of
\* the iteration that read it: one iteration more than there were
\* non-satisfying readings.
C10_ReturnsOnFirstSatisfying ==
    /\ scIterations = Len(scObserved)
    /\ scState = "looping" => \A k \in 1..Len(scObserved) : ~Satisfying(scObserved[k])
    /\ scState = "returned" =>
          /\ Satisfying(scObserved[Len(scObserved)])
          /\ scIterations = NonSatisfyingBefore(scObserved) + 1

\* two non-satisfying readings, then a satisfying one
C10_Witness ==
    /\ scState = "returned"
    /\ scIterations = 3
    /\ NonSatisfyingBefore(scObserved) = 2


\* the size-chart assembly has come back in FnSpec
SizeChartDone == fnDone /\ fnName = "sizeChart"

\* C11: for N column headers and M row keys the size chart has exactly N
\* keys, each mapped to a sequence of exactly M entries, entry j of a column
\* being the single pair of row key j and the text of cell j of the column's
\* row, whatever header texts and cell counts the table shows.
C11_SizeChartNByM ==
    SizeChartDone =>
        LET headers == NonEmptyTexts(fnIn.headers)
            rowKeys == RowCells(fnIn.tbody, 1)
        IN  /\ fnOut.status = "returned"
            /\ Cardinality(DOMAIN fnOut.chart) = Len(headers)
            /\ \A i \in 1..Len(headers) :
                 /\ Len(fnOut.chart[headers[i]]) = Len(rowKeys)
                 /\ \A j \in 1..Len(rowKeys) :
                      /\ j <= Len(RowCells(fnIn.tbody, i + 1))
                      /\ fnOut.chart[headers[i]][j] =
                            {<<rowKeys[j], RowCells(fnIn.tbody, i + 1)[j]>>}

\* the reviews loop has come back in FnSpec
ReviewsDone == fnDone /\ fnName = "reviews"

\* what a sub-element that is found, read and not empty gives; else empty
Shown(el) == IF el.found /\ ~el.err THEN el.text ELSE <<>>

\* C12: every sub-field of a review defaults independently: a rating title
\* that has not the value/total form gives rating 0, the entry of each block
\* is produced with its other sub-fields, and the reviews come back.
C12_ReviewSubFieldsDefault ==
    ReviewsDone =>
        /\ fnOut.status = "returned"
        /\ Len(fnOut.reviews) = Len(fnIn)
        /\ \A k \in 1..Len(fnIn) :
             /\ fnOut.reviews[k].Date = Shown(fnIn[k].date)
             /\ fnOut.reviews[k].Title = Shown(fnIn[k].title)
             /\ fnOut.reviews[k].Description = Shown(fnIn[k].description)
             /\ fnOut.reviews[k].ReviewId = Shown(fnIn[k].reviewId)
             /\ (\A c \in 1..Len(fnIn[k].rating.text) : fnIn[k].rating.text[c] # "/")
                    => fnOut.reviews[k].Rating = FloatZero

\* the title is the numeral v, a "/", and the numeral t between blanks
ValuePerTotal(title, v, t) ==
    \E a \in 0..1, b \in 0..1 :
        title = v.text \o <<"/">> \o [i \in 1..a |-> " "] \o t.text \o [i \in 1..b |-> " "]

\* the rating title of the block is obtained and has the value/total form
HasValuePerTotal(block, v, t) ==
    block.rating.found /\ ~block.rating.err /\ ValuePerTotal(block.rating.text, v, t)

\* C13: the rating of a review whose title is value/total is the number
\* after the "/" (the total), not the one before it: "4.5/5" gives 5.0;
\* reviews whose titles all have that form are all produced.
C13_RatingIsSecondSegment ==
    ReviewsDone =>
        /\ \A k \in 1..Len(fnIn) : \A v \in Numerals, t \in Numerals :
              HasValuePerTotal(fnIn[k], v, t) /\ fnOut.status = "returned"
                 => fnOut.reviews[k].Rating = t.value
        /\ (\A k \in 1..Len(fnIn) : \E v \in Numerals, t \in Numerals :
              HasValuePerTotal(fnIn[k], v, t))
                 => fnOut.status = "returned" /\ Len(fnOut.reviews) = Len(fnIn)

\* "4.5/5" was read: the rating is 5.0 and not 4.5
C13_Witness ==
    /\ ReviewsDone
    /\ Len(fnIn) = 1
    /\ fnIn[1].rating = Elem(<<"4", ".", "5", "/", "5">>)
    /\ fnOut.reviews[1].Rating = [num |-> 5, den |-> 1]
    /\ fnOut.reviews[1].Rating # [num |-> 45, den |-> 10]

\* C14: on a page where no lookup matches anything the pipeline runs
\* through without error, the Product it returns has no field populated but
\* productURL (SizeChart is the map without keys), and exactly one record,
\* this one, is written for the URL.
C14_EmptyPageGivesBareProduct ==
    exPage = EmptyPage =>
        /\ exStatus \notin {"fatal", "panic"}
        /\ exStatus \in {"returned", "inserted", "insertFailed"} =>
             /\ exRan = StepNames
             /\ \A f \in Fields :
                  exProduct[f] = (IF f = "SizeChart" THEN "empty" ELSE "zero")
        /\ exStatus = "inserted" =>
             exWritten = <<[productURL |-> ExtractURL, fields |-> exProduct]>>
        /\ exStatus # "inserted" => exWritten = <<>>

\* the record of the empty page was written
C14_Witness ==
    /\ exPage = EmptyPage
    /\ exStatus = "inserted"
    /\ Len(exWritten) = 1
    /\ exWritten[1].productURL = ExtractURL
    /\ exWritten[1].fields["Title"] = "zero"

\* the review summary has come back in FnSpec
SummaryDone == fnDone /\ fnName = "reviewSummary"

\* the element's text is obtained
Obtained(el) == el.found /\ ~el.err

\* C15: the summary's rating is 0.0 when it cannot be parsed, the number of
\* reviews 0 when it cannot be parsed, the recommendation rate "0.00%" when
\* it cannot be obtained; the titles of the images at indices 0..3 go to
\* fit, length, quality and comfort, and later images change nothing.
C15_SummaryDefaultsAndPositions ==
    SummaryDone =>
        /\ ~(Obtained(fnIn.rating) /\ ParseFloat(fnIn.rating.text).ok)
              => fnOut.Rating = FloatZero
        /\ ~(Obtained(fnIn.count) /\ Atoi(fnIn.count.text).ok)
              => fnOut.NumberOfReviews = 0
        /\ ~Obtained(fnIn.recommended) => fnOut.RecommendedRate = ZeroPercent
        /\ \A k \in 0..3 :
              k < Len(fnIn.images) /\ ~fnIn.images[k + 1].err
                 => fnOut[<<"Fit", "Length", "Quality", "Comfort">>[k + 1]]
                       = fnIn.images[k + 1].text
        /\ Len(fnIn.images) > 4 =>
              fnOut = reviewSummaryOf([fnIn EXCEPT !.images = SubSeq(@, 1, 4)])

\* the colour options have come back in FnSpec
ColorsDone == fnDone /\ fnName = "colors"

\* the swatches that have an image with a src and an alt, both not empty
Complete(swatches) ==
    {k \in 1..Len(swatches) :
        swatches[k].img /\ swatches[k].src.text # <<>> /\ swatches[k].alt.text # <<>>}

\* C16: the colour entries are those of the swatches whose image src and
\* alt text are both not empty, one each and no other, in the order of the
\* swatches, with path = base URL + src and color = alt.
C16_ColorEntryIffSrcAndAlt ==
    ColorsDone =>
        /\ Len(fnOut) = Cardinality(Complete(fnIn))
        /\ \A k \in Complete(fnIn) :
             fnOut[Cardinality({j \in Complete(fnIn) : j <= k})] =
                [Path |-> baseURL \o fnIn[k].src.text, Color |-> fnIn[k].alt.text]

\* three swatches, the one in the middle with an alt and an empty src: two
\* entries
C16_Witness ==
    /\ ColorsDone
    /\ Len(fnIn) = 3
    /\ Complete(fnIn) = {1, 3}
    /\ fnIn[2].img /\ fnIn[2].alt.text # <<>> /\ fnIn[2].src = Elem(<<>>)
    /\ Len(fnOut) = 2
    /\ fnOut[1].Color # fnOut[2].Color

\* the coordinated products have come back in FnSpec
CoordinatedDone == fnDone /\ fnName = "coordinated"

\* segment index 3 (counted from 0) of the card's image src split on "/",
\* empty when the src is not obtained or has fewer than 4 segments
NumberOfCard(card) ==
    IF card.img /\ ~card.src.err /\ Len(Split(card.src.text, "/")) >= 4
    THEN Split(card.src.text, "/")[4] ELSE <<>>

\* C17: every cross-sell card gives exactly one entry, whose productNumber is
\* segment 3 of the image src, or empty when that cannot be had (short path,
\* image or src not obtainable), its productURL being base/products/ and the
\* number; nothing of this is an error.
C17_OneEntryPerCard ==
    CoordinatedDone =>
        /\ fnOut.status = "returned"
        /\ Len(fnOut.coordinated) = Len(fnIn)
        /\ \A k \in 1..Len(fnIn) :
             /\ fnOut.coordinated[k].ProductNumber = NumberOfCard(fnIn[k])
             /\ fnOut.coordinated[k].ProductURL = ProductsPrefix \o NumberOfCard(fnIn[k])

\* the query parameters of a URL: what follows the first "?", split on "&"
ParamsOf(url) ==
    IF \A k \in 1..Len(url) : url[k] # "?" THEN <<>>
    ELSE LET q == CHOOSE k \in 1..Len(url) : url[k] = "?" /\ \A j \in 1..(k - 1) : url[j] # "?"
         IN  Split(SubSeq(url, q + 1, Len(url)), "&")

\* the values of the parameters of the URL that are named name, in order
ValuesOf(url, name) ==
    LET ps == ParamsOf(url)
        named == SelectSeq(ps, LAMBDA p : HasAt(p, 1, name \o <<"=">>))
    IN  [k \in 1..Len(named) |-> SubSeq(named[k], Len(name) + 2, Len(named[k]))]

\* the values of the URL's page parameters that are decimal numerals
PageValues(url) ==
    SelectSeq(ValuesOf(url, <<"p", "a", "g", "e">>),
              LAMBDA v : v # <<>> /\ \A k \in 1..Len(v) : v[k] \in DigitSet)

\* C18: extractPageNumber gives N for every URL with a page=N query
\* parameter, N a non-negative decimal, and -1 for every URL without one.
C18_PageNumberOfEveryURL ==
    fnDone /\ fnName = "extractPageNumber" =>
        IF PageValues(fnIn) # <<>>
        THEN fnOut = DigitsToInt(PageValues(fnIn)[1])
        ELSE fnOut = -1

\* the values of the URL's category parameters that are not empty
CategoryValues(url) ==
    SelectSeq(ValuesOf(url, <<"c", "a", "t", "e", "g", "o", "r", "y">>), LAMBDA v : v # <<>>)

\* C19: extractCategory gives exactly X for every URL with a category=X
\* query parameter, and the empty string for every URL without one.
C19_CategoryOfEveryURL ==
    fnDone /\ fnName = "extractCategory" =>
        IF CategoryValues(fnIn) # <<>>
        THEN fnOut = CategoryValues(fnIn)[1]
        ELSE fnOut = <<>>

\* phase 2 is under way: its workers are started and main has not reached
\* the end
InPhase2 == mpc \in {"p2_send", "p2_wait"}

\* C20: phase 2 terminates whatever number of its workers failed to
\* establish a session: as long as no hard failure has ended the process,
\* the run is never stuck before the end of main (some goroutine can take a
\* step).
C20_Phase2NeverStuck ==
    proc = "running" /\ InPhase2 => ENABLED Next

\* where main is in phase 1, and from the bulk read on
Phase1Pcs == {"p1_spawn", "p1_discover", "p1_category", "p1_send", "p1_close", "p1_wait"}
Phase2Pcs == {"p2_find", "p2_spawn", "p2_send", "p2_wait", "done"}

\* C21: phase 1 begins only when the ProductURL collection is empty at
\* startup; main comes to the bulk read only straight from startup with a
\* collection that is not empty, or from phase 1 with its channel closed
\* and all its workers exited, and never goes back; rows are read and
\* phase-2 tasks sent only from then on, with no phase-1 worker left; the
\* tasks are the URLs of the rows read, in order, at most FindLimit (300 in
\* the source) of them.
C21_PhasesInOrder ==
    /\ [][mpc' = "p1_spawn" /\ mpc # "p1_spawn" => mpc = "start" /\ stored = <<>>]_vars
    /\ [][mpc' = "p2_find" /\ mpc # "p2_find" =>
            \/ mpc = "start" /\ stored # <<>>
            \/ mpc = "p1_wait" /\ closed[1] /\ \A w \in Workers : wpc[w] = "exited"]_vars
    /\ [][(mpc \in Phase2Pcs) => (mpc' \in Phase2Pcs)]_vars
    /\ [][results' # results => mpc = "p2_find" /\ results' = FindRows(stored, FindLimit)]_vars
    /\ [](mpc \in Phase1Pcs \cup {"start"} => results = <<>> /\ sentLog[2] = <<>>)
    /\ [](mpc \in Phase2Pcs =>
            /\ \A w \in Workers : WorkerPhase(w) # 1
            /\ Len(results) <= FindLimit
            /\ Len(sentLog[2]) <= Len(results)
            /\ \A i \in 1..Len(sentLog[2]) : sentLog[2][i] = results[i].url)

\* phase 1 ran and wrote rows, and phase 2 has sent all the tasks of a read
\* that reached the cap
C21_Witness ==
    /\ mpc = "p2_wait"
    /\ closed[1] /\ Len(sentLog[1]) >= 1
    /\ Len(stored) > FindLimit
    /\ Len(sentLog[2]) = FindLimit

\* main is in phase 1 with the category sequence built
Discovered == mpc \in {"p1_category", "p1_send", "p1_close", "p1_wait"}

\* C22: every task phase 1 sends is a page of the category at index 1 (the
\* second) of the discovered sequence; with fewer than two categories no
\* task is sent and no ProductURL is written, main is never stuck before
\* the bulk read, waits only on a closed channel and passes the wait with
\* every phase-1 worker exited.
C22_OnlySecondCategory ==
    /\ \A i \in 1..Len(sentLog[1]) :
          Len(categories) >= 2 /\ IsPageTask(sentLog[1][i], categories[2], i)
    /\ (Discovered \/ closed[1]) /\ Len(categories) < 2 =>
          /\ sentLog[1] = <<>>
          /\ stored = <<>>
          /\ \A w \in Workers : wpc[w] \notin {"u_get", "u_scroll", "u_find", "u_insert"}
          /\ mpc = "p1_wait" => closed[1]
          /\ mpc \in Phase2Pcs => \A w \in Workers : wpc[w] = "exited"
          /\ proc = "running" /\ Discovered => ENABLED Next

\* a single category was discovered, and the run came to its end with the
\* channel closed, the workers exited and nothing written
C22_Witness ==
    /\ mpc = "done" /\ proc = "running"
    /\ closed[1] /\ Len(categories) = 1
    /\ sentLog[1] = <<>> /\ stored = <<>>
    /\ \A w \in Workers : wpc[w] = "exited"

\* phase 1 has begun: the collection was empty at startup, so every row it
\* holds was written by a phase-1 worker
Phase1Ran == mpc \in Phase1Pcs \/ closed[1]

\* the rows written for the page task i
RowsOfTask(i) == {k \in 1..Len(stored) : stored[k].pageNo = i}

\* a ProductURL as a worker may write it for the task it holds
WrittenBy(w, row) ==
    /\ wpc[w] = "u_insert" /\ wlinks[w] # <<>>
    /\ ~Head(wlinks[w]).err /\ Head(wlinks[w]).href # <<>>
    /\ row.pageNo = extractPageNumber(wurl[w]) /\ row.pageNo # -1
    /\ row.category = extractCategory(wurl[w]) /\ row.category # <<>>
    /\ row.url = baseURL \o Head(wlinks[w]).href

\* C23: every ProductURL a phase-1 worker writes has a pageNo other than
\* -1, a category that is not empty and for url the base followed by an
\* href that is not empty, all three taken from the task the worker holds;
\* a worker that leaves its task at the page load or at the link lookup
\* (lookup error, no page number or no category in the URL) has written
\* nothing for it and writes nothing in leaving it, and is back at the head
\* of its loop with the process running.
C23_RowsWellFormedSkipsWriteNothing ==
    /\ [](Phase1Ran =>
            \A k \in 1..Len(stored) :
               /\ stored[k].pageNo # -1
               /\ stored[k].category # <<>>
               /\ Len(stored[k].url) > Len(baseURL)
               /\ SubSeq(stored[k].url, 1, Len(baseURL)) = baseURL)
    /\ [](\A w \in Workers :
            /\ wpc[w] \in {"u_get", "u_scroll", "u_find"} => RowsOfTask(wtask[w]) = {}
            /\ wpc[w] = "u_insert" =>
                  extractPageNumber(wurl[w]) # -1 /\ extractCategory(wurl[w]) # <<>>)
    /\ [][stored' # stored =>
            \E w \in Workers : stored' = Append(stored, stored'[Len(stored')])
                               /\ WrittenBy(w, stored'[Len(stored')])]_vars
    /\ [][\A w \in Workers :
            wpc[w] \in {"u_get", "u_find"} /\ wpc'[w] # wpc[w] /\ wpc'[w] # "u_insert"
            /\ wpc'[w] # "u_scroll" =>
               /\ stored' = stored
               /\ wpc'[w] = "u_recv" /\ proc' = "running"
               /\ handled'[1][wtask[w]] = handled[1][wtask[w]] + 1]_vars

\* phase 1 is over with all three page tasks handled: one of them wrote a
\* row, another was left without a row, and the run went on to the bulk read
C23_Witness ==
    /\ mpc \in Phase2Pcs /\ closed[1] /\ proc = "running"
    /\ Len(sentLog[1]) = MaxPageTotal
    /\ \A i \in 1..MaxPageTotal : handled[1][i] = 1
    /\ \E i, j \in 1..MaxPageTotal : RowsOfTask(i) # {} /\ RowsOfTask(j) = {}

=============================================================================
